---- MODULE Spec2Model ----
(***************************************************************************)
(* Octree construction of barneshutt3d (src/main.rs): Range::midpoint,     *)
(* Cuboid::split, Cuboid::octant_contains_point, OctreeNode::new,          *)
(* OctreeNode::insert and Simulation::new.                                 *)
(*                                                                         *)
(* Numbers.  The program computes in f64.  The model's integers stand for  *)
(* the f64 values of the same magnitude; every range of the model has an   *)
(* even start+end (and the tree's ranges stay so at every depth the model  *)
(* reaches, see ExactArithmetic), so that every f64 addition, subtraction, *)
(* multiplication by 0., 1. or 2. and division by 2 the program performs   *)
(* on them is exact and equals the integer operation written here.         *)
(*                                                                         *)
(* State.  tree is the root with all its descendants; bodies is the part   *)
(* of the input Vec the loop of Simulation::new has iterated over; body is *)
(* the argument of the running (or last) insert, cur the node it runs on,  *)
(* pre the tree as it was when root.insert was called.  gpc, gcub, gpoint  *)
(* and gout are the input and output of a single call of split or          *)
(* octant_contains_point.                                                  *)
(*                                                                         *)
(* Tree.  A node is named by its path from the root, the sequence of the   *)
(* child slots taken; children[i] of node p is Some exactly when           *)
(* Append(p, i) is in DOMAIN tree.  Option<T> is a sequence of length 0    *)
(* (None) or 1 (Some).                                                     *)
(***************************************************************************)
EXTENDS Integers, Sequences, FiniteSets, TLC

VARIABLES tree, pc, cur, body, bodies, pre, gpc, gcub, gpoint, gout

vars == <<tree, pc, cur, body, bodies, pre, gpc, gcub, gpoint, gout>>

treeVars == <<tree, pc, cur, body, bodies, pre>>

geomVars == <<gpc, gcub, gpoint, gout>>

(* length of the Vec<Body> handed to Simulation::new *)
MaxBodies == 4

None == <<>>

Some(v) == <<v>>

Range(s, e) == [start |-> s, end |-> e]

Point(px, py, pz) == [x |-> px, y |-> py, z |-> pz]

Cuboid(rx, ry, rz) == [x |-> rx, y |-> ry, z |-> rz]

(* the root volumes Simulation::new is called with; the first is main's *)
MainSpace == Cuboid(Range(0, 1024), Range(0, 1024), Range(0, 1024))

Spaces == {MainSpace, Cuboid(Range(0, 1024), Range(-512, 512), Range(256, 768))}

(* mass and location of the bodies the input Vec is drawn from: inside the  *)
(* root volume, on its midpoint, and outside of it                          *)
BodyPool ==
  { [mass |-> 1, location |-> Point(100, 100, 100)],
    [mass |-> 2, location |-> Point(900, 900, 900)],
    [mass |-> 1, location |-> Point(512, 512, 512)],
    [mass |-> 3, location |-> Point(300, 300, 300)],
    [mass |-> 1, location |-> Point(200, 600, 700)],
    [mass |-> 2, location |-> Point(1100, -50, 512)] }

(* ---------------------------------------------------------------------- *)
(* Range and Cuboid                                                        *)
(* ---------------------------------------------------------------------- *)

midpointDiff(r) == (r.end - r.start) \div 2

midpoint(r) == (r.start + r.end) \div 2

signs ==
  << <<0, 0, 0>>, <<1, 0, 0>>, <<0, 1, 0>>, <<1, 1, 0>>,
     <<0, 0, 1>>, <<1, 0, 1>>, <<0, 1, 1>>, <<1, 1, 1>> >>

splitAxis(r, sign) ==
  LET mid == midpoint(r)
  IN  Range(r.start + sign * (mid - r.start),
            r.start + (sign + 1) * (mid - r.start))

split(c) ==
  [i \in 0..7 |->
     Cuboid(splitAxis(c.x, signs[i + 1][1]),
            splitAxis(c.y, signs[i + 1][2]),
            splitAxis(c.z, signs[i + 1][3]))]

octantMatch(t) ==
  CASE t = <<0, 0, 0>> -> Some(0)
    [] t = <<1, 0, 0>> -> Some(1)
    [] t = <<0, 1, 0>> -> Some(2)
    [] t = <<1, 1, 0>> -> Some(3)
    [] t = <<0, 0, 1>> -> Some(4)
    [] t = <<1, 0, 1>> -> Some(5)
    [] t = <<0, 1, 1>> -> Some(6)
    [] t = <<1, 1, 1>> -> Some(7)
    [] OTHER -> None

(* faulty variant: the comparison is not strict *)
octant_contains_point_le(c, point) ==
  octantMatch(<< IF point.x <= midpoint(c.x) THEN 0 ELSE 1,
                 IF point.y <= midpoint(c.y) THEN 0 ELSE 1,
                 IF point.z <= midpoint(c.z) THEN 0 ELSE 1 >>)

(* faulty variant: the comparison is the other way round *)
octant_contains_point_gt(c, point) ==
  octantMatch(<< IF point.x > midpoint(c.x) THEN 0 ELSE 1,
                 IF point.y > midpoint(c.y) THEN 0 ELSE 1,
                 IF point.z > midpoint(c.z) THEN 0 ELSE 1 >>)

(* faulty variant: a point outside the cuboid is in none of its octants *)
octant_contains_point_bounded(c, point) ==
  IF \/ point.x < c.x.start \/ point.x > c.x.end
     \/ point.y < c.y.start \/ point.y > c.y.end
     \/ point.z < c.z.start \/ point.z > c.z.end
  THEN None
  ELSE octantMatch(<< IF point.x < midpoint(c.x) THEN 0 ELSE 1,
                      IF point.y < midpoint(c.y) THEN 0 ELSE 1,
                      IF point.z < midpoint(c.z) THEN 0 ELSE 1 >>)

octant_contains_point(c, point) ==
  LET x_mid == midpoint(c.x)
      y_mid == midpoint(c.y)
      z_mid == midpoint(c.z)
      x_octant == IF point.x < x_mid THEN 0 ELSE 1
      y_octant == IF point.y < y_mid THEN 0 ELSE 1
      z_octant == IF point.z < z_mid THEN 0 ELSE 1
  IN  octantMatch(<<x_octant, y_octant, z_octant>>)

(* ---------------------------------------------------------------------- *)
(* OctreeNode                                                              *)
(* ---------------------------------------------------------------------- *)

(* OctreeNode::new and From<Cuboid>: no body; the eight children are None, *)
(* that is, no path below this node is in the tree                         *)
new(space) == [body |-> None, bounding_box |-> space]

(* the loop of insert, from cube k on: the index of the first cube of the  *)
(* split whose octant_contains_point answers Some, None when the loop ends *)
(* without one                                                             *)
RECURSIVE firstMatch(_, _, _)
firstMatch(cuboids, point, k) ==
  IF k > 7 THEN None
  ELSE IF octant_contains_point(cuboids[k], point) # None THEN Some(k)
  ELSE firstMatch(cuboids, point, k + 1)

(* ---------------------------------------------------------------------- *)
(* Simulation::new: root = OctreeNode::new(space), then one root.insert    *)
(* per body of the Vec; each call of insert is one step                    *)
(* ---------------------------------------------------------------------- *)

TreeInit ==
  /\ \E space \in Spaces : tree = (<<>> :> new(space))
  /\ pc = "loop"
  /\ cur = <<>>
  /\ body = None
  /\ bodies = <<>>
  /\ pre = tree

GeomOff ==
  /\ gpc = "off"
  /\ gcub = MainSpace
  /\ gpoint = Point(0, 0, 0)
  /\ gout = None

Init == TreeInit /\ GeomOff

(* the number of bodies of the Vec the loop has taken so far *)
count == Len(bodies)

(* for body in bodies { root.insert(body) }: the next body of the Vec; its *)
(* id is its position in the Vec, the identity of the moved value          *)
Call ==
  /\ pc = "loop"
  /\ count < MaxBodies
  /\ \E b \in BodyPool :
       LET next == [id |-> count + 1, mass |-> b.mass, location |-> b.location]
       IN  /\ body' = Some(next)
           /\ bodies' = Append(bodies, next)
  /\ cur' = <<>>
  /\ pre' = tree
  /\ pc' = "insert"
  /\ UNCHANGED tree
  /\ UNCHANGED geomVars

(* faulty variant: the node is split as soon as it gets its body *)
InsertStoreSplit ==
  /\ pc = "insert"
  /\ tree[cur].body = None
  /\ tree' = [tree EXCEPT ![cur].body = body]
               @@ (Append(cur, 0) :> new(split(tree[cur].bounding_box)[0]))
  /\ pc' = "loop"
  /\ UNCHANGED <<cur, body, bodies, pre>>
  /\ UNCHANGED geomVars

(* insert, the node holds no body: keep the body here and return *)
InsertStore ==
  /\ pc = "insert"
  /\ tree[cur].body = None
  /\ tree' = [tree EXCEPT ![cur].body = body]
  /\ pc' = "loop"
  /\ UNCHANGED <<cur, body, bodies, pre>>
  /\ UNCHANGED geomVars

(* faulty variant: the resident body moves down into the child the split creates *)
InsertDescendRelocate ==
  /\ pc = "insert"
  /\ tree[cur].body # None
  /\ \E cuboids \in {split(tree[cur].bounding_box)} :
     \E found \in {firstMatch(cuboids, body[1].location, 0)} :
       IF found = None
       THEN /\ pc' = "loop"
            /\ UNCHANGED <<tree, cur>>
       ELSE \E cuboid_idx \in
                 {octant_contains_point(cuboids[found[1]], body[1].location)[1]} :
              /\ tree' = IF Append(cur, cuboid_idx) \in DOMAIN tree
                         THEN tree
                         ELSE [tree EXCEPT ![cur].body = None]
                                @@ (Append(cur, cuboid_idx)
                                      :> [body |-> tree[cur].body,
                                          bounding_box |-> cuboids[cuboid_idx]])
              /\ cur' = IF Append(cur, cuboid_idx) \in DOMAIN tree
                        THEN Append(cur, cuboid_idx)
                        ELSE cur
              /\ pc' = pc
  /\ UNCHANGED <<body, bodies, pre>>
  /\ UNCHANGED geomVars

(* faulty variant: the recursive call is made on the node itself *)
InsertDescendSelf ==
  /\ pc = "insert"
  /\ tree[cur].body # None
  /\ \E cuboids \in {split(tree[cur].bounding_box)} :
     \E found \in {firstMatch(cuboids, body[1].location, 0)} :
       IF found = None
       THEN /\ pc' = "loop"
            /\ UNCHANGED <<tree, cur>>
       ELSE \E cuboid_idx \in
                 {octant_contains_point(cuboids[found[1]], body[1].location)[1]} :
              /\ tree' = IF Append(cur, cuboid_idx) \in DOMAIN tree
                         THEN tree
                         ELSE tree @@ (Append(cur, cuboid_idx)
                                         :> new(cuboids[cuboid_idx]))
              /\ cur' = cur
              /\ pc' = pc
  /\ UNCHANGED <<body, bodies, pre>>
  /\ UNCHANGED geomVars

(* faulty variant: the split creates all eight children at once *)
InsertDescendEager ==
  /\ pc = "insert"
  /\ tree[cur].body # None
  /\ \E cuboids \in {split(tree[cur].bounding_box)} :
     \E found \in {firstMatch(cuboids, body[1].location, 0)} :
       IF found = None
       THEN /\ pc' = "loop"
            /\ UNCHANGED <<tree, cur>>
       ELSE \E cuboid_idx \in
                 {octant_contains_point(cuboids[found[1]], body[1].location)[1]} :
              /\ tree' = [p \in DOMAIN tree \cup {Append(cur, i) : i \in 0..7} |->
                          IF p \in DOMAIN tree THEN tree[p]
                          ELSE new(cuboids[p[Len(p)]])]
              /\ cur' = Append(cur, cuboid_idx)
              /\ pc' = pc
  /\ UNCHANGED <<body, bodies, pre>>
  /\ UNCHANGED geomVars

(* insert, the node holds a body: split the node's box, take the first     *)
(* cube of the split whose octant_contains_point answers Some(cuboid_idx), *)
(* create children[cuboid_idx] over cuboids[cuboid_idx] if it is None and  *)
(* call insert on it; when no cube answers Some the loop ends and the body *)
(* is dropped.  (\E over a one-element set names a value, as let does.)    *)
InsertDescend ==
  /\ pc = "insert"
  /\ tree[cur].body # None
  /\ \E cuboids \in {split(tree[cur].bounding_box)} :
     \E found \in {firstMatch(cuboids, body[1].location, 0)} :
       IF found = None
       THEN /\ pc' = "loop"
            /\ UNCHANGED <<tree, cur>>
       ELSE \E cuboid_idx \in
                 {octant_contains_point(cuboids[found[1]], body[1].location)[1]} :
              /\ tree' = IF Append(cur, cuboid_idx) \in DOMAIN tree
                         THEN tree
                         ELSE tree @@ (Append(cur, cuboid_idx)
                                         :> new(cuboids[cuboid_idx]))
              /\ cur' = Append(cur, cuboid_idx)
              /\ pc' = pc
  /\ UNCHANGED <<body, bodies, pre>>
  /\ UNCHANGED geomVars

(* Simulation { tree: root } *)
Finish ==
  /\ pc = "loop"
  /\ pc' = "done"
  /\ UNCHANGED <<tree, cur, body, bodies, pre>>
  /\ UNCHANGED geomVars

Next == Call \/ InsertStore \/ InsertDescend \/ Finish

Spec == Init /\ [][Next]_vars

(* insert runs to completion once called: the program is sequential *)
FairSpec == Spec /\ WF_vars(InsertStore) /\ WF_vars(InsertDescend)

(* ---------------------------------------------------------------------- *)
(* A single call of split or octant_contains_point on any cuboid and point *)
(* ---------------------------------------------------------------------- *)

(* ranges with start <= end, one of them a single point *)
GRanges == {Range(0, 1024), Range(0, 2), Range(-6, 4), Range(8, 8)}

GCuboids == {Cuboid(rx, ry, rz) : rx \in GRanges, ry \in GRanges, rz \in GRanges}

(* coordinates below, on and above the midpoints of GRanges *)
GCoords == {-7, -1, 1, 8, 512}

GPoints == {Point(px, py, pz) : px \in GCoords, py \in GCoords, pz \in GCoords}

GeomInit ==
  /\ tree = (<<>> :> new(MainSpace))
  /\ pc = "geom"
  /\ cur = <<>>
  /\ body = None
  /\ bodies = <<>>
  /\ pre = tree
  /\ gpc = "input"
  /\ gcub \in GCuboids
  /\ gpoint \in GPoints
  /\ gout = None

GeomSplit ==
  /\ gpc = "input"
  /\ gout' = split(gcub)
  /\ gpc' = "split"
  /\ UNCHANGED <<gcub, gpoint>>
  /\ UNCHANGED treeVars

GeomClassify ==
  /\ gpc = "input"
  /\ gout' = octant_contains_point(gcub, gpoint)
  /\ gpc' = "classified"
  /\ UNCHANGED <<gcub, gpoint>>
  /\ UNCHANGED treeVars

GeomNext == GeomSplit \/ GeomClassify

SpecGeom == GeomInit /\ [][GeomNext]_vars

(* ---------------------------------------------------------------------- *)
(* Vocabulary of the properties                                            *)
(* ---------------------------------------------------------------------- *)

IsPrefix(p, q) == Len(p) <= Len(q) /\ SubSeq(q, 1, Len(p)) = p

childrenOf(t, p) == {i \in 0..7 : Append(p, i) \in DOMAIN t}

residents(t) == {p \in DOMAIN t : t[p].body # None}

(* sign 0 iff the coordinate is strictly below (start + end) / 2 *)
AxisSign(r, v) == IF 2 * v < r.start + r.end THEN 0 ELSE 1

OwnOctant(c, point) ==
  AxisSign(c.x, point.x) + 2 * AxisSign(c.y, point.y) + 4 * AxisSign(c.z, point.z)

(* the half of r that sign selects, mid being the number with 2*mid = start+end *)
IsHalf(h, r, sign) ==
  IF sign = 0
  THEN h.start = r.start /\ 2 * h.end = r.start + r.end
  ELSE 2 * h.start = r.start + r.end /\ h.end = r.end

InRange(r, v) == r.start <= v /\ v <= r.end

Inside(c, point) ==
  InRange(c.x, point.x) /\ InRange(c.y, point.y) /\ InRange(c.z, point.z)

Returned == pc \in {"loop", "done"}

(* the f64 operations the model performs on the tree's boxes are exact: the *)
(* midpoint of every box and of its first octant is an integer              *)
ExactRange(r) == (r.start + r.end) % 2 = 0

ExactCuboid(c) == ExactRange(c.x) /\ ExactRange(c.y) /\ ExactRange(c.z)

ExactArithmetic ==
  \A p \in DOMAIN tree :
    /\ ExactCuboid(tree[p].bounding_box)
    /\ ExactCuboid(split(tree[p].bounding_box)[0])

(* ---------------------------------------------------------------------- *)
(* Properties                                                              *)
(* ---------------------------------------------------------------------- *)

(* C1: insert on a node that holds a body routes the incoming body to      *)
(* children[i], i the octant of the body's location by the midpoints of    *)
(* that node's own bounding box, the child being scoped to sub-volume i of *)
(* the node's split.                                                       *)
C1_RoutedByOwnMidpoints ==
  [][(pc = "insert" /\ tree[cur].body # None) =>
       LET i == OwnOctant(tree[cur].bounding_box, body[1].location)
       IN  /\ cur' = Append(cur, i)
           /\ cur' \in DOMAIN tree'
           /\ tree'[cur'].bounding_box = split(tree[cur].bounding_box)[i]]_vars

(* C2: insert on a node without a body stores the body there and returns   *)
(* without creating a child; after a build from one body the root holds    *)
(* that body and has no child.                                             *)
C2_StoreInEmptyNode ==
  /\ [][(pc = "insert" /\ tree[cur].body = None) =>
          /\ tree' = [tree EXCEPT ![cur].body = body]
          /\ DOMAIN tree' = DOMAIN tree
          /\ pc' = "loop"]_vars
  /\ []((Returned /\ count = 1) =>
          /\ tree[<<>>].body = Some(bodies[1])
          /\ DOMAIN tree = {<<>>})

C2_Witness ==
  /\ pc = "done"
  /\ count = 1
  /\ tree[<<>>].body = body
  /\ body # None

(* C3: a resident body, once set, stays the resident body of its node      *)
(* through every later step of every insert.                               *)
C3_ResidentNeverMoves ==
  [][\A p \in DOMAIN tree :
       tree[p].body # None =>
         (p \in DOMAIN tree' /\ tree'[p].body = tree[p].body)]_vars

C3_Witness ==
  /\ Returned
  /\ \E p \in DOMAIN tree : \E i \in 0..7 :
       /\ Append(p, i) \in DOMAIN tree
       /\ tree[p].body # None
       /\ tree[Append(p, i)].body # None
       /\ tree[p].body[1].id < tree[Append(p, i)].body[1].id

(* C4: every call of root.insert returns, with the body stored in the      *)
(* tree, also when all bodies have the same coordinates.                   *)
C4_InsertTerminates ==
  (pc = "insert") ~> (pc = "loop" /\ tree[cur].body = body)

C4_Witness ==
  /\ Returned
  /\ count >= 2
  /\ tree[<<>>].bounding_box = MainSpace
  /\ \A k \in 1..count : bodies[k].location = Point(512, 512, 512)
  /\ Cardinality(residents(tree)) = count

C6_ClassifyTotal ==
  gpc = "classified" =>
    /\ gout # None
    /\ Len(gout) = 1
    /\ gout[1] \in 0..7
    /\ gout[1] = OwnOctant(gcub, gpoint)

C6_Witness ==
  /\ gpc = "classified"
  /\ ~Inside(gcub, gpoint)
  /\ gpoint.x = 512 /\ gcub.x = Range(0, 1024)
  /\ gout = Some(3)

(* C7: over [0,1024]^3, the bodies at (100,100,100) and (900,900,900) in   *)
(* that order give: root holds the first, its only child is slot 7, which  *)
(* holds the second and has no child.                                      *)
C7_TwoBodies ==
  ( /\ Returned
    /\ tree[<<>>].bounding_box = MainSpace
    /\ count = 2
    /\ bodies[1].location = Point(100, 100, 100)
    /\ bodies[2].location = Point(900, 900, 900) )
  => /\ tree[<<>>].body = Some(bodies[1])
     /\ childrenOf(tree, <<>>) = {7}
     /\ tree[<<7>>].body = Some(bodies[2])
     /\ childrenOf(tree, <<7>>) = {}

C7_Witness ==
  /\ pc = "done"
  /\ tree[<<>>].bounding_box = MainSpace
  /\ count = 2
  /\ bodies[1].location = Point(100, 100, 100)
  /\ bodies[2].location = Point(900, 900, 900)
  /\ DOMAIN tree = {<<>>, <<7>>}

(* C8: a call of root.insert changes only nodes on the path it walks: no   *)
(* node is removed, no box changes, nodes off the path keep body and       *)
(* children, at most one child slot is filled in the whole tree, and on    *)
(* return exactly one node, which had no body, has got the body.           *)
C8_Frame ==
  /\ DOMAIN pre \subseteq DOMAIN tree
  /\ \A q \in DOMAIN pre : tree[q].bounding_box = pre[q].bounding_box
  /\ \A q \in DOMAIN tree :
       ~IsPrefix(q, cur) =>
         /\ q \in DOMAIN pre
         /\ tree[q] = pre[q]
         /\ childrenOf(tree, q) = childrenOf(pre, q)
  /\ Cardinality(DOMAIN tree \ DOMAIN pre) <= 1
  /\ (Returned /\ count > 0) =>
       /\ {q \in DOMAIN tree : q \notin DOMAIN pre \/ tree[q].body # pre[q].body}
            = {cur}
       /\ tree[cur].body = body
       /\ cur \in DOMAIN pre => pre[cur].body = None

C8_Witness ==
  /\ Returned
  /\ count = 3
  /\ Len(cur) = 2
  /\ Cardinality(DOMAIN tree \ DOMAIN pre) = 1
  /\ Cardinality(DOMAIN pre) = 2

(* C9: no body is dropped: after any build every body of the input is the  *)
(* resident body of exactly one node, the tree holds as many resident      *)
(* bodies as were inserted, and only the root of an empty tree is without  *)
(* a body.                                                                 *)
C9_NoBodyDropped ==
  Returned =>
    /\ \A k \in 1..count :
         Cardinality({p \in DOMAIN tree : tree[p].body = Some(bodies[k])}) = 1
    /\ Cardinality(residents(tree)) = count
    /\ \A p \in DOMAIN tree : (p # <<>> \/ count > 0) => tree[p].body # None

C9_Witness ==
  /\ pc = "done"
  /\ count = 3
  /\ bodies[2].location = bodies[3].location
  /\ bodies[1].location = Point(1100, -50, 512)
  /\ ~Inside(tree[<<>>].bounding_box, bodies[2].location)
  /\ Cardinality(residents(tree)) = 3

(* C10: when all inserted bodies lie inside the root's box, every node's   *)
(* box is the sub-volume of its parent's split for its slot, and every     *)
(* resident body lies inside the closed box of its node.                   *)
C10_Containment ==
  (\A k \in 1..count : Inside(tree[<<>>].bounding_box, bodies[k].location)) =>
    \A p \in DOMAIN tree :
      /\ p # <<>> =>
           tree[p].bounding_box
             = split(tree[SubSeq(p, 1, Len(p) - 1)].bounding_box)[p[Len(p)]]
      /\ tree[p].body # None =>
           Inside(tree[p].bounding_box, tree[p].body[1].location)

====
